---- MODULE Spec2Model ----
(***************************************************************************)
(* Stream metadata service (src/service/stream.rs): the read path          *)
(* (get_stream, get_streams), the settings write (save_stream_settings)    *)
(* and the delete workflow (delete_stream), run by concurrent request      *)
(* handlers against the schema store, the schema cache, the stats cache    *)
(* and the compaction subsystem.                                           *)
(*                                                                         *)
(* One stream key (org_id, stream_type, stream_name) is modelled.  Every   *)
(* request handler is a process that takes one step per external call, so  *)
(* that the calls of concurrent handlers interleave at their await points. *)
(* f64 sizes are kept as fixed-point integers in hundredths (1.00 = 100).  *)
(***************************************************************************)
EXTENDS Integers, Sequences, FiniteSets, TLC

\* ------------------------------------------------------------------ bounds
NumRequests == 2
MaxVersions == 2
MaxClock == 1
MaxKeys == 2
MaxListing == 2

Reqs == 1..NumRequests
Causes == {"e1", "e2"}

\* --------------------------------------------------------------- constants
SIZE_IN_MB == 1048576

StreamName == "Test"
StreamTypeLogs == "logs"

\* Option<T>: None is the empty sequence, Some(v) the one-element sequence.
None == <<>>
Some(v) == <<v>>

\* ------------------------------------------------------------------ values
\* StreamStats::default()
StatsDefault ==
  [doc_num |-> 0, doc_time_min |-> 0, doc_time_max |-> 0,
   storage_size |-> 0, compressed_size |-> 0]

\* raw counters of a stream in use: 2097152.0 and 1048576.0 bytes
StatsRaw ==
  [doc_num |-> 10, doc_time_min |-> 1, doc_time_max |-> 2,
   storage_size |-> 209715200, compressed_size |-> 104857600]

\* StreamSettings values a caller may send
SettingsDefault ==
  [partition_keys |-> <<>>, full_text_search_keys |-> <<>>,
   skip_schema_validation |-> FALSE, data_retention |-> 0]

SettingInputs ==
  { SettingsDefault,
    [partition_keys |-> <<"tenant", "region">>,
     full_text_search_keys |-> <<"log", "body">>,
     skip_schema_validation |-> TRUE, data_retention |-> 7] }

\* schema metadata: the settings and created_at keys, and any other key
MetaEmpty == [settings |-> None, created_at |-> None, other |-> None]

\* Schema::empty(): no fields, no metadata
SchemaEmpty == [fields |-> <<>>, metadata |-> MetaEmpty]

FieldFC == [name |-> "f.c", data_type |-> "Int32"]

\* json::Value.  A scalar is null, a boolean, a number or a string; a member
\* of a settings object can also be an array of scalars or a map from labels
\* to scalars.  A label is the sequence of the bytes of a map key.
JNull == [t |-> "null", b |-> FALSE, n |-> 0, s |-> ""]
JBool(b) == [t |-> "bool", b |-> b, n |-> 0, s |-> ""]
JNum(n) == [t |-> "num", b |-> FALSE, n |-> n, s |-> ""]
JStr(s) == [t |-> "str", b |-> FALSE, n |-> 0, s |-> s]
JScalar(x) == [t |-> x.t, b |-> x.b, n |-> x.n, s |-> x.s, a |-> <<>>, o |-> {}]
JArr(items) ==
  [t |-> "arr", b |-> FALSE, n |-> 0, s |-> "", a |-> items, o |-> {}]
JObj(pairs) ==
  [t |-> "obj", b |-> FALSE, n |-> 0, s |-> "", a |-> <<>>, o |-> pairs]

\* the label of the i-th partition key, "L0" to "L9": labels whose byte order
\* is the order of the positions
Label(i) == <<76, 48 + (i - 1)>>

\* the text stored under the settings key.  kind is "object" for a JSON
\* object, "scalar" for other JSON, "garbage" for text that is not JSON.
BlobOf(kind, skip, keys, fts, retention) ==
  [kind |-> kind, skip_schema_validation |-> skip, partition_keys |-> keys,
   full_text_search_keys |-> fts, data_retention |-> retention]

\* json::to_string(&setting): partition_keys becomes a map from a position
\* label to the key, the other members are written as they are
SettingsToJson(setting) ==
  BlobOf("object",
         Some(JScalar(JBool(setting.skip_schema_validation))),
         Some(JObj({ <<Label(i), JStr(setting.partition_keys[i])>> :
                       i \in DOMAIN setting.partition_keys })),
         Some(JArr([i \in DOMAIN setting.full_text_search_keys |->
                      JStr(setting.full_text_search_keys[i])])),
         Some(JScalar(JNum(setting.data_retention))))

\* a schema as ingestion creates it: fields, no metadata
SchemaPlain == [fields |-> <<FieldFC>>, metadata |-> MetaEmpty]

\* latest versions the store may hold before any request of the model runs:
\* one never given settings, one whose settings were saved at time 0
InitSchemas ==
  { SchemaPlain,
    [fields |-> <<FieldFC>>,
     metadata |-> [settings |-> Some(SettingsToJson(SettingsDefault)),
                   created_at |-> Some(0), other |-> None]] }

\* version lists of up to MaxVersions versions: older versions, then a latest
InitVersions ==
  { <<>> } \cup
  { [i \in 1..n |-> IF i = n THEN latest ELSE SchemaPlain] :
      n \in 1..MaxVersions, latest \in InitSchemas }

\* --------------------------------------------------------------- variables
VARIABLES
  versions,     \* schema store: the stream's schema versions, oldest first
  schemaCache,  \* STREAM_SCHEMAS entry of the stream (Option)
  statsCache,   \* stats cache entry of the stream (Option)
  offset,       \* compaction offset record of the stream (Option)
  deleting,     \* compaction pending-delete mark of the stream
  faulty,       \* whether the external subsystems may return errors in this run
  clock,        \* last value chrono::Utc::now() returned
  op,           \* op[p]: the operation request p runs
  pc,           \* pc[p]: where request p stands
  arg,          \* arg[p]: the StreamSettings argument of a save request
  local,        \* local[p]: the schema / listing held in p's local variables
  result,       \* result[p]: what p returned to its caller
  log,          \* log[p]: the delete-workflow subsystem calls p made, in order
  before        \* before[p]: the requests that had ended when p was invoked

stores == <<versions, schemaCache, statsCache, offset, deleting>>
procs == <<op, pc, arg, local, result, log, before>>
vars == <<versions, schemaCache, statsCache, offset, deleting, faulty, clock,
          op, pc, arg, local, result, log, before>>

\* ------------------------------------------------- external collaborators
\* db::schema::get: the latest version, or the empty schema when none exists
SchemaGet(vs) == IF vs = <<>> THEN SchemaEmpty ELSE vs[Len(vs)]

\* db::schema::get_versions
SchemaGetVersions(vs) == vs

\* db::schema::set with min_ts = None: writes the latest version
SchemaSet(vs, schema) ==
  IF vs = <<>> THEN <<schema>> ELSE [vs EXCEPT ![Len(vs)] = schema]

\* db::schema::delete: removes every version; deleting nothing is a no-op
SchemaDelete(vs) == <<>>

\* db::schema::list: the stream locations of the organisation
SchemaList(vs) ==
  IF vs = <<>> THEN <<>>
  ELSE <<[stream_name |-> StreamName, stream_type |-> StreamTypeLogs,
          schema |-> SchemaGet(vs)]>>

\* stats::get_stream_stats: the cached counters, the default when none
StatsGet(c) == IF c = None THEN StatsDefault ELSE c[1]

\* what an external call may return: Ok, or an error with a cause
Outcomes == IF faulty THEN {"Ok"} \cup Causes ELSE {"Ok"}

\* ---------------------------------------------------------- pure functions
\* x / d rounded to the nearest integer, ties away from zero (f64::round)
RoundDiv(x, d) ==
  IF x >= 0 THEN (2 * x + d) \div (2 * d) ELSE -((2 * (-x) + d) \div (2 * d))

transform_stats_TouchesRows(stats) ==
  [doc_num |-> RoundDiv(stats.doc_num, SIZE_IN_MB),
   doc_time_min |-> stats.doc_time_min,
   doc_time_max |-> stats.doc_time_max,
   storage_size |-> RoundDiv(stats.storage_size, SIZE_IN_MB),
   compressed_size |-> RoundDiv(stats.compressed_size, SIZE_IN_MB)]

\* transform_stats: bytes to MiB, rounded to two decimals.  On hundredths h the
\* code's ((h/100 / SIZE_IN_MB) * 100).round() / 100 is round(h / SIZE_IN_MB).
transform_stats(stats) ==
  [stats EXCEPT !.storage_size = RoundDiv(stats.storage_size, SIZE_IN_MB),
                !.compressed_size = RoundDiv(stats.compressed_size, SIZE_IN_MB)]

\* a.cmp(b) of two map keys is Less: byte order, a proper prefix first
LexLess(a, b) ==
  \E k \in 0..Len(a) :
    /\ k <= Len(b)
    /\ \A i \in 1..k : a[i] = b[i]
    /\ IF k = Len(a) THEN k < Len(b)
       ELSE k < Len(b) /\ a[k + 1] < b[k + 1]

RECURSIVE ValuesByLabel_Descending(_)
ValuesByLabel_Descending(pairs) ==
  IF pairs = {} THEN <<>>
  ELSE LET first == CHOOSE x \in pairs :
                      \A y \in pairs : y = x \/ LexLess(y[1], x[1])
       IN  <<first[2].s>> \o ValuesByLabel_Descending(pairs \ {first})

\* the string values of a label -> value map, in ascending order of the labels
RECURSIVE ValuesByLabel(_)
ValuesByLabel(pairs) ==
  IF pairs = {} THEN <<>>
  ELSE LET first == CHOOSE x \in pairs :
                      \A y \in pairs : y = x \/ LexLess(x[1], y[1])
       IN  <<first[2].s>> \o ValuesByLabel(pairs \ {first})

\* is_local_disk_storage(): the deployment's storage backend
is_local_disk_storage == TRUE

\* stream_res: whether one of its unwrap() calls panics on the metadata
stream_res_panics(schema) ==
  /\ schema.metadata.settings # None
  /\ LET settings == schema.metadata.settings[1]
         skip == settings.skip_schema_validation
         keys == settings.partition_keys
         fts == settings.full_text_search_keys
         retention == settings.data_retention
     IN  \/ settings.kind = "garbage"
         \/ /\ settings.kind = "object"
            /\ \/ skip # None /\ skip[1].t # "bool"
               \/ keys # None /\ keys[1].t # "obj"
               \/ keys # None /\ \E x \in keys[1].o : x[2].t # "str"
               \/ fts # None /\ fts[1].t # "arr"
               \/ fts # None /\ \E i \in DOMAIN fts[1].a : fts[1].a[i].t # "str"
               \/ retention # None /\ retention[1].t # "num"

\* stream_res: the StreamSettings it reads from the metadata
stream_res_settings(metadata) ==
  LET meta == [metadata EXCEPT !.created_at = None]
      object == meta.settings # None /\ meta.settings[1].kind = "object"
      settings == meta.settings[1]
      has(member) == object /\ member # None
  IN  [partition_keys |->
         IF object /\ settings.partition_keys # None
         THEN ValuesByLabel(settings.partition_keys[1].o) ELSE <<>>,
       full_text_search_keys |->
         IF object /\ settings.full_text_search_keys # None
         THEN [i \in DOMAIN settings.full_text_search_keys[1].a |->
                 settings.full_text_search_keys[1].a[i].s]
         ELSE <<>>,
       skip_schema_validation |->
         IF object /\ settings.skip_schema_validation # None
         THEN settings.skip_schema_validation[1].b ELSE FALSE,
       data_retention |->
         IF object /\ settings.data_retention # None
         THEN settings.data_retention[1].n ELSE 0]

\* stream_res: the StreamProperty list of the schema's fields
stream_res_mappings(schema) ==
  [i \in DOMAIN schema.fields |->
     [prop_type |-> schema.fields[i].data_type, name |-> schema.fields[i].name]]

stream_res_NormalizesStats(stream_name, stream_type, schema, stats) ==
  [name |-> stream_name,
   stream_type |-> stream_type,
   storage_type |-> IF is_local_disk_storage THEN "disk" ELSE "s3",
   schema |-> stream_res_mappings(schema),
   stats |-> IF stats = None THEN StatsDefault ELSE transform_stats(stats[1]),
   settings |-> stream_res_settings(schema.metadata)]

\* stream_res: the public descriptor of a stream, when no unwrap() panics
stream_res(stream_name, stream_type, schema, stats) ==
  [name |-> stream_name,
   stream_type |-> stream_type,
   storage_type |-> IF is_local_disk_storage THEN "disk" ELSE "s3",
   schema |-> stream_res_mappings(schema),
   stats |-> IF stats = None THEN StatsDefault ELSE stats[1],
   settings |-> stream_res_settings(schema.metadata)]

\* the body of the loop of get_streams, for one stream location
stream_loc_res(stream_loc, raw) ==
  IF raw = StatsDefault
  THEN stream_res(stream_loc.stream_name, stream_loc.stream_type,
                  stream_loc.schema, None)
  ELSE stream_res(stream_loc.stream_name, stream_loc.stream_type,
                  stream_loc.schema, Some(transform_stats(raw)))

\* get_streams: the descriptors in the order of the listing, each with the
\* statistics that the cache holds for the stream's name
get_streams_res_Reversed(indices, raw) ==
  [i \in DOMAIN indices |->
     stream_loc_res(indices[Len(indices) + 1 - i],
                    raw[indices[Len(indices) + 1 - i].stream_name])]

get_streams_res(indices, raw) ==
  [i \in DOMAIN indices |->
     stream_loc_res(indices[i], raw[indices[i].stream_name])]

\* get_stream_setting_fts_fields: Ok(value), unless an unwrap() panics
get_stream_setting_fts_fields_Unchecked(schema) ==
  LET stream_settings == schema.metadata.settings
  IN  [panics |-> stream_settings = None, value |-> <<>>]

get_stream_setting_fts_fields(schema) ==
  LET stream_settings == schema.metadata.settings
      settings == stream_settings[1]
      keys == settings.full_text_search_keys
  IN  IF stream_settings = None
      THEN [panics |-> FALSE, value |-> <<>>]
      ELSE IF settings.kind = "garbage"
      THEN [panics |-> TRUE, value |-> <<>>]
      ELSE IF settings.kind # "object" \/ keys = None
      THEN [panics |-> FALSE, value |-> <<>>]
      ELSE IF \/ keys[1].t # "arr"
              \/ \E i \in DOMAIN keys[1].a : keys[1].a[i].t # "str"
      THEN [panics |-> TRUE, value |-> <<>>]
      ELSE [panics |-> FALSE,
            value |-> [i \in DOMAIN keys[1].a |-> keys[1].a[i].s]]

with_settings_InsertIfAbsent(schema, setting, now) ==
  LET m1 == IF schema.metadata.settings = None
            THEN [schema.metadata EXCEPT
                    !.settings = Some(SettingsToJson(setting))]
            ELSE schema.metadata
      m2 == IF m1.created_at = None THEN [m1 EXCEPT !.created_at = Some(now)]
            ELSE m1
  IN  [schema EXCEPT !.metadata = m2]

\* save_stream_settings: the metadata it builds from the schema it read
with_settings(schema, setting, now) ==
  LET m1 == [schema.metadata EXCEPT !.settings = Some(SettingsToJson(setting))]
      m2 == IF m1.created_at = None THEN [m1 EXCEPT !.created_at = Some(now)]
            ELSE m1
  IN  [schema EXCEPT !.metadata = m2]

\* ----------------------------------------------------------------- results
NoResult == [status |-> "none", message |-> <<>>, body |-> <<>>]

\* HttpResponse::NotFound, "stream not found"
RespNotFound ==
  [status |-> "NotFound", message |-> <<"stream not found">>, body |-> <<>>]

\* HttpResponse::InternalServerError, "failed to delete stream: {e}"
RespDeleteFailed(e) ==
  [status |-> "InternalServerError",
   message |-> <<"failed to delete stream: ", e>>, body |-> <<>>]

\* HttpResponse::InternalServerError, "stream [{stream_name}] is being deleted"
RespBeingDeleted ==
  [status |-> "InternalServerError",
   message |-> <<"stream [", StreamName, "] is being deleted">>, body |-> <<>>]

\* HttpResponse::Ok, "stream deleted"
RespDeleted == [status |-> "Ok", message |-> <<"stream deleted">>, body |-> <<>>]

\* HttpResponse::Ok, ""
RespSaved == [status |-> "Ok", message |-> <<"">>, body |-> <<>>]

\* HttpResponse::Ok with the stream descriptor
RespStream(stream) == [status |-> "Ok", message |-> <<>>, body |-> <<stream>>]

\* the Vec<Stream> get_streams returns
RespStreams(streams) == [status |-> "Vec", message |-> <<>>, body |-> streams]

\* -------------------------------------------------------------------- Init
\* the records of the stream before any request: no stream, or a stream with
\* its cached schema and possibly statistics and a compaction offset
InitStores ==
  /\ versions \in InitVersions
  /\ schemaCache = IF versions = <<>> THEN None ELSE Some(SchemaGet(versions))
  /\ statsCache \in IF versions = <<>> THEN {None} ELSE {None, Some(StatsRaw)}
  /\ offset \in IF versions = <<>> THEN {None} ELSE {None, Some(1)}
  /\ deleting = FALSE
  /\ clock = 0

\* no request has been made
InitRequests ==
  /\ op = [p \in Reqs |-> "none"]
  /\ pc = [p \in Reqs |-> "idle"]
  /\ arg = [p \in Reqs |-> SettingsDefault]
  /\ local = [p \in Reqs |-> <<>>]
  /\ result = [p \in Reqs |-> NoResult]
  /\ log = [p \in Reqs |-> <<>>]
  /\ before = [p \in Reqs |-> {}]

Init == InitStores /\ faulty = TRUE /\ InitRequests

Ended(p) == pc[p] \in {"done", "panicked"}

\* p returns r to its caller; its local variables are dropped
Return(p, r) ==
  /\ pc' = [pc EXCEPT ![p] = "done"]
  /\ result' = [result EXCEPT ![p] = r]
  /\ local' = [local EXCEPT ![p] = <<>>]

\* an unwrap() of an Err: the handler's task panics, nothing is returned
Panic(p) ==
  /\ pc' = [pc EXCEPT ![p] = "panicked"]
  /\ local' = [local EXCEPT ![p] = <<>>]
  /\ UNCHANGED result

\* p goes on to its next external call, holding v in its local variables
Goto(p, where, v) ==
  /\ pc' = [pc EXCEPT ![p] = where]
  /\ local' = [local EXCEPT ![p] = v]
  /\ UNCHANGED result

Logged(p, call, out) ==
  log' = [log EXCEPT ![p] = Append(@, [call |-> call, outcome |-> out])]

\* a caller invokes operation o: p is the handler of that request, and its
\* first step is the operation's first external call
Invoked(p, o) ==
  /\ pc[p] = "idle"
  /\ op' = [op EXCEPT ![p] = o]
  /\ before' = [before EXCEPT ![p] = { q \in Reqs : Ended(q) }]

\* -------------------------------------------------------------- get_stream
\* db::schema::get(..).await.unwrap()
GetStreamSchema(p) ==
  /\ Invoked(p, "get_stream")
  /\ \E out \in Outcomes :
       IF out = "Ok"
       THEN Goto(p, "g_stats", <<SchemaGet(versions)>>)
       ELSE Panic(p)
  /\ UNCHANGED <<stores, faulty, clock, arg, log>>

\* get_stream storing the normalized counters back into the stats cache
GetStreamStats_WritesBack(p) ==
  /\ pc[p] = "g_stats"
  /\ LET schema == local[p][1]
         stats == transform_stats(StatsGet(statsCache))
     IN  /\ statsCache' = IF statsCache = None THEN None ELSE Some(stats)
         /\ IF schema # SchemaEmpty
            THEN Return(p, RespStream(stream_res(StreamName, StreamTypeLogs,
                                                 schema, Some(stats))))
            ELSE Return(p, RespNotFound)
  /\ UNCHANGED <<versions, schemaCache, offset, deleting, faulty, clock,
                 op, arg, log, before>>

\* stats::get_stream_stats, transform_stats, and the answer
GetStreamStats(p) ==
  /\ pc[p] = "g_stats"
  /\ LET schema == local[p][1]
         stats == transform_stats(StatsGet(statsCache))
     IN  IF schema = SchemaEmpty THEN Return(p, RespNotFound)
         ELSE IF stream_res_panics(schema) THEN Panic(p)
         ELSE Return(p, RespStream(stream_res(StreamName, StreamTypeLogs,
                                              schema, Some(stats))))
  /\ UNCHANGED <<stores, faulty, clock, op, arg, log, before>>

\* ------------------------------------------------------------- get_streams
\* db::schema::list(..).await.unwrap()
GetStreamsList(p) ==
  /\ Invoked(p, "get_streams")
  /\ \E out \in Outcomes :
       IF out = "Ok"
       THEN Goto(p, "l_build", SchemaList(versions))
       ELSE Panic(p)
  /\ UNCHANGED <<stores, faulty, clock, arg, log>>

\* the loop over the listing
GetStreamsBuild(p) ==
  /\ pc[p] = "l_build"
  /\ LET indices == local[p]
         raw == [name \in {StreamName} |-> StatsGet(statsCache)]
     IN  IF \E i \in DOMAIN indices : stream_res_panics(indices[i].schema)
         THEN Panic(p)
         ELSE Return(p, RespStreams(get_streams_res(indices, raw)))
  /\ UNCHANGED <<stores, faulty, clock, op, arg, log, before>>

\* ---------------------------------------------------- save_stream_settings
\* db::compact::delete::is_deleting_stream
SaveCheck(p) ==
  /\ Invoked(p, "save_stream_settings")
  /\ \E setting \in SettingInputs : arg' = [arg EXCEPT ![p] = setting]
  /\ IF deleting THEN Return(p, RespBeingDeleted) ELSE Goto(p, "s_get", <<>>)
  /\ UNCHANGED <<stores, faulty, clock, log>>

\* save_stream_settings stamping created_at whether or not the key is there
SaveGet_AlwaysStamps(p) ==
  /\ pc[p] = "s_get"
  /\ \E out \in Outcomes :
       IF out = "Ok"
       THEN LET schema == SchemaGet(versions)
                bare == [schema EXCEPT !.metadata.created_at = None]
            IN  \E now \in clock..MaxClock :
                  /\ clock' = now
                  /\ Goto(p, "s_set", <<with_settings(bare, arg[p], now)>>)
       ELSE /\ Panic(p)
            /\ UNCHANGED clock
  /\ UNCHANGED <<stores, faulty, op, arg, log, before>>

\* db::schema::get(..).await.unwrap(), then the new metadata
SaveGet(p) ==
  /\ pc[p] = "s_get"
  /\ \E out \in Outcomes :
       IF out = "Ok"
       THEN LET schema == SchemaGet(versions)
                stamps == schema.metadata.created_at = None
            IN  \E now \in IF stamps THEN clock..MaxClock ELSE {clock} :
                  /\ clock' = now
                  /\ Goto(p, "s_set", <<with_settings(schema, arg[p], now)>>)
       ELSE /\ Panic(p)
            /\ UNCHANGED clock
  /\ UNCHANGED <<stores, faulty, op, arg, log, before>>

\* db::schema::set(..).await.unwrap()
SaveSet(p) ==
  /\ pc[p] = "s_set"
  /\ \E out \in Outcomes :
       IF out = "Ok"
       THEN /\ versions' = SchemaSet(versions, local[p][1])
            /\ Return(p, RespSaved)
       ELSE /\ Panic(p)
            /\ UNCHANGED versions
  /\ UNCHANGED <<schemaCache, statsCache, offset, deleting, faulty, clock,
                 op, arg, log, before>>

\* ----------------------------------------------------------- delete_stream
\* delete_stream without the early return on an empty version list
DeleteVersions_NoEarlyReturn(p) ==
  /\ Invoked(p, "delete_stream")
  /\ \E out \in Outcomes :
       IF out # "Ok" THEN Panic(p) ELSE Goto(p, "d_mark", <<>>)
  /\ UNCHANGED <<stores, faulty, clock, arg, log>>

\* delete_stream refusing a stream that is already marked pending deletion
DeleteVersions_RejectsMarked(p) ==
  /\ Invoked(p, "delete_stream")
  /\ \E out \in Outcomes :
       IF out # "Ok" THEN Panic(p)
       ELSE IF SchemaGetVersions(versions) = <<>>
            THEN Return(p, RespNotFound)
            ELSE IF deleting THEN Return(p, RespBeingDeleted)
                 ELSE Goto(p, "d_mark", <<>>)
  /\ UNCHANGED <<stores, faulty, clock, arg, log>>

\* db::schema::get_versions(..).await.unwrap(), and the NotFound answer
DeleteVersions(p) ==
  /\ Invoked(p, "delete_stream")
  /\ \E out \in Outcomes :
       IF out # "Ok" THEN Panic(p)
       ELSE IF SchemaGetVersions(versions) = <<>>
            THEN Return(p, RespNotFound)
            ELSE Goto(p, "d_mark", <<>>)
  /\ UNCHANGED <<stores, faulty, clock, arg, log>>

\* delete_stream invalidating the stats cache before it reports a failed mark
DeleteMark_ClearsStatsOnFailure(p) ==
  /\ pc[p] = "d_mark"
  /\ \E out \in Outcomes :
       /\ Logged(p, "mark_pending_delete", out)
       /\ IF out = "Ok"
          THEN /\ deleting' = TRUE
               /\ UNCHANGED statsCache
               /\ Goto(p, "d_schema", <<>>)
          ELSE /\ UNCHANGED deleting
               /\ statsCache' = None
               /\ Return(p, RespDeleteFailed(out))
  /\ UNCHANGED <<versions, schemaCache, offset, faulty, clock,
                 op, arg, before>>

\* db::compact::delete::delete_stream: mark the stream pending deletion
DeleteMark(p) ==
  /\ pc[p] = "d_mark"
  /\ \E out \in Outcomes :
       /\ Logged(p, "mark_pending_delete", out)
       /\ IF out = "Ok"
          THEN /\ deleting' = TRUE
               /\ Goto(p, "d_schema", <<>>)
          ELSE /\ UNCHANGED deleting
               /\ Return(p, RespDeleteFailed(out))
  /\ UNCHANGED <<versions, schemaCache, statsCache, offset, faulty, clock,
                 op, arg, before>>

\* delete_stream going on to the caches after a failed schema delete
DeleteSchema_IgnoresError(p) ==
  /\ pc[p] = "d_schema"
  /\ \E out \in Outcomes :
       /\ Logged(p, "schema_delete", out)
       /\ versions' = IF out = "Ok" THEN SchemaDelete(versions) ELSE versions
       /\ Goto(p, "d_schema_cache", <<>>)
  /\ UNCHANGED <<schemaCache, statsCache, offset, deleting, faulty, clock,
                 op, arg, before>>

\* db::schema::delete
DeleteSchema(p) ==
  /\ pc[p] = "d_schema"
  /\ \E out \in Outcomes :
       /\ Logged(p, "schema_delete", out)
       /\ IF out = "Ok"
          THEN /\ versions' = SchemaDelete(versions)
               /\ Goto(p, "d_schema_cache", <<>>)
          ELSE /\ UNCHANGED versions
               /\ Return(p, RespDeleteFailed(out))
  /\ UNCHANGED <<schemaCache, statsCache, offset, deleting, faulty, clock,
                 op, arg, before>>

\* STREAM_SCHEMAS.remove(&key)
DeleteSchemaCache(p) ==
  /\ pc[p] = "d_schema_cache"
  /\ Logged(p, "schema_cache_remove", "Ok")
  /\ schemaCache' = None
  /\ Goto(p, "d_stats_cache", <<>>)
  /\ UNCHANGED <<versions, statsCache, offset, deleting, faulty, clock,
                 op, arg, before>>

\* delete_stream without the stats::remove_stream_stats call
DeleteStatsCache_KeepsStats(p) ==
  /\ pc[p] = "d_stats_cache"
  /\ Goto(p, "d_offset", <<>>)
  /\ UNCHANGED <<stores, faulty, clock, op, arg, log, before>>

\* stats::remove_stream_stats
DeleteStatsCache(p) ==
  /\ pc[p] = "d_stats_cache"
  /\ Logged(p, "stats_cache_remove", "Ok")
  /\ statsCache' = None
  /\ Goto(p, "d_offset", <<>>)
  /\ UNCHANGED <<versions, schemaCache, offset, deleting, faulty, clock,
                 op, arg, before>>

\* db::compact::files::del_offset, and the success answer
DeleteOffset(p) ==
  /\ pc[p] = "d_offset"
  /\ \E out \in Outcomes :
       /\ Logged(p, "del_offset", out)
       /\ IF out = "Ok"
          THEN /\ offset' = None
               /\ Return(p, RespDeleted)
          ELSE /\ UNCHANGED offset
               /\ Return(p, RespDeleteFailed(out))
  /\ UNCHANGED <<versions, schemaCache, statsCache, deleting, faulty, clock,
                 op, arg, before>>

\* -------------------------------------------------------------------- Next
Next ==
  \E p \in Reqs :
       \/ GetStreamSchema(p)
       \/ GetStreamStats(p)
       \/ GetStreamsList(p)
       \/ GetStreamsBuild(p)
       \/ SaveCheck(p)
       \/ SaveGet(p)
       \/ SaveSet(p)
       \/ DeleteVersions(p)
       \/ DeleteMark(p)
       \/ DeleteSchema(p)
       \/ DeleteSchemaCache(p)
       \/ DeleteStatsCache(p)
       \/ DeleteOffset(p)

Spec == Init /\ [][Next]_vars

\* Concurrent delete_stream calls on an existing stream whose subsystems do
\* not fail.  The runtime polls every ready task and every external call
\* returns, so a handler that can take a step eventually takes one.
InitDeletes == InitStores /\ versions # <<>> /\ faulty = FALSE /\ InitRequests

NextDeletes ==
  \E p \in Reqs :
       \/ DeleteVersions(p)
       \/ DeleteMark(p)
       \/ DeleteSchema(p)
       \/ DeleteSchemaCache(p)
       \/ DeleteStatsCache(p)
       \/ DeleteOffset(p)

SpecDeletes == InitDeletes /\ [][NextDeletes]_vars /\ WF_vars(NextDeletes)

\* ------------------------------------------ the pure functions, on their own
\* One caller applies one function to one input.  The input is held in the
\* caller's local variables, the value returned is its result.
Caller == 1

\* the sequences of at most n distinct members of S
Lists(S, n) ==
  UNION { { f \in [1..k -> S] : \A i, j \in 1..k : f[i] = f[j] => i = j } :
          k \in 0..n }

\* sizes in hundredths of a byte, around the rounding points of a MiB
Sizes == {0, 100, 524287, 524288, 104857600, 157286400, 209715200}

StatsInputs ==
  { [doc_num |-> d, doc_time_min |-> d \div 10, doc_time_max |-> d \div 5,
     storage_size |-> s, compressed_size |-> c] :
    d \in {0, 10}, s \in Sizes, c \in Sizes }

\* map keys "a", "b", "L1", "L10", "L2"
MapLabels == {<<97>>, <<98>>, <<76, 49>>, <<76, 49, 48>>, <<76, 50>>}
MapValues == {JStr("tenant"), JStr("region"), JNum(1)}

\* maps of at most MaxKeys labels
Maps ==
  { m \in SUBSET (MapLabels \X MapValues) :
      /\ Cardinality(m) <= MaxKeys
      /\ \A x, y \in m : x[1] = y[1] => x = y }

SettingsFull == CHOOSE setting \in SettingInputs : setting # SettingsDefault

\* texts the settings key may hold: what save_stream_settings writes, a map
\* alone, text with one member missing or of another type, and text that is
\* not an object
Blobs ==
  LET base == SettingsToJson(SettingsFull)
  IN  { SettingsToJson(setting) : setting \in SettingInputs }
      \cup { BlobOf("object", None, Some(JObj(m)), None, None) : m \in Maps }
      \cup { [base EXCEPT !.skip_schema_validation = v] :
               v \in {None, Some(JScalar(JStr("true"))), Some(JScalar(JNull))} }
      \cup { [base EXCEPT !.partition_keys = v] :
               v \in {None, Some(JScalar(JStr("tenant"))),
                      Some(JArr(<<JStr("tenant")>>))} }
      \cup { [base EXCEPT !.full_text_search_keys = v] :
               v \in {None, Some(JScalar(JStr("log"))), Some(JObj({})),
                      Some(JArr(<<JStr("log"), JNum(1)>>))} }
      \cup { [base EXCEPT !.data_retention = v] :
               v \in {None, Some(JScalar(JStr("7"))), Some(JScalar(JBool(TRUE)))} }
      \cup { BlobOf("scalar", None, None, None, None),
             BlobOf("garbage", None, None, None, None) }

MetaInputs ==
  { [settings |-> st, created_at |-> c, other |-> o] :
    st \in {None} \cup { Some(blob) : blob \in Blobs },
    c \in {None, Some(0)}, o \in {None, Some("v")} }

SchemaInputs == { [fields |-> <<FieldFC>>, metadata |-> m] : m \in MetaInputs }

StreamNames == {"app", "db", "web"}

StreamLoc(name) ==
  [stream_name |-> name,
   stream_type |-> IF name = "db" THEN "metrics" ELSE StreamTypeLogs,
   schema |-> IF name = "web" THEN [SchemaPlain EXCEPT !.fields = <<>>]
              ELSE SchemaPlain]

\* listings of at most MaxListing streams
ListInputs ==
  { [i \in DOMAIN names |-> StreamLoc(names[i])] :
    names \in Lists(StreamNames, MaxListing) }

InitFn ==
  /\ InitStores /\ versions = <<>>
  /\ faulty = FALSE
  /\ op = [p \in Reqs |-> "none"]
  /\ pc = [p \in Reqs |-> "idle"]
  /\ arg = [p \in Reqs |-> SettingsDefault]
  /\ result = [p \in Reqs |-> NoResult]
  /\ log = [p \in Reqs |-> <<>>]
  /\ before = [p \in Reqs |-> {}]
  /\ \E input \in
         { [fn |-> "transform_stats", stats |-> x] : x \in StatsInputs }
         \cup { [fn |-> "stream_res", schema |-> x, stats |-> y] :
                  x \in SchemaInputs,
                  y \in {None, Some(StatsDefault), Some(StatsRaw)} }
         \cup { [fn |-> "get_stream_setting_fts_fields", schema |-> x] :
                  x \in SchemaInputs }
         \cup { [fn |-> "get_streams", indices |-> x, raw |-> y] :
                  x \in ListInputs,
                  y \in [StreamNames -> {StatsDefault, StatsRaw}] } :
       local = [p \in Reqs |-> IF p = Caller THEN <<input>> ELSE <<>>]

Input == local[Caller][1]

Called(fn) ==
  /\ pc[Caller] = "idle"
  /\ Input.fn = fn
  /\ op' = [op EXCEPT ![Caller] = fn]
  /\ UNCHANGED <<stores, faulty, clock, arg, local, log, before>>

Returned(r) ==
  /\ pc' = [pc EXCEPT ![Caller] = "done"]
  /\ result' = [result EXCEPT ![Caller] = r]

Panicked ==
  /\ pc' = [pc EXCEPT ![Caller] = "panicked"]
  /\ UNCHANGED result

CallTransformStats ==
  /\ Called("transform_stats")
  /\ Returned(RespStream(transform_stats(Input.stats)))

CallStreamRes ==
  /\ Called("stream_res")
  /\ IF stream_res_panics(Input.schema) THEN Panicked
     ELSE Returned(RespStream(stream_res(StreamName, StreamTypeLogs,
                                         Input.schema, Input.stats)))

CallFtsFields ==
  /\ Called("get_stream_setting_fts_fields")
  /\ LET r == get_stream_setting_fts_fields(Input.schema)
     IN  IF r.panics THEN Panicked ELSE Returned(RespStream(r.value))

\* the loop of get_streams over a listing of several streams
CallGetStreams ==
  /\ Called("get_streams")
  /\ Returned(RespStreams(get_streams_res(Input.indices, Input.raw)))

NextFn ==
  \/ CallTransformStats
  \/ CallStreamRes
  \/ CallFtsFields
  \/ CallGetStreams

SpecFn == InitFn /\ [][NextFn]_vars

\* ------------------------------------------------------------ observations
\* the stage at which p's delete workflow aborted, "none" if it did not
FailedAt(p) ==
  IF log[p] # <<>> /\ log[p][Len(log[p])].outcome # "Ok"
  THEN log[p][Len(log[p])].call ELSE "none"

\* the cause of the failure that aborted p's delete workflow
FailureCause(p) == log[p][Len(log[p])].outcome

\* no other request ran during p's call or after it
Sequential(p) == \A q \in Reqs \ {p} : pc[q] = "idle" \/ q \in before[p]

\* the four records of the stream are gone
AllRemoved ==
  /\ versions = <<>>
  /\ schemaCache = None
  /\ statsCache = None
  /\ offset = None

\* ------------------------------------------------------------------ claims
\* C1: a delete_stream call that finds the schema-version list empty returns
\* NotFound, makes no subsystem call and leaves the pending-delete mark, the
\* schema store, the schema cache, the stats cache and the offset unchanged.
C1_EmptyVersionsNotFound ==
  [][\A p \in Reqs :
       (/\ pc[p] = "idle"
        /\ op'[p] = "delete_stream"
        /\ pc'[p] # "panicked"
        /\ SchemaGetVersions(versions) = <<>>)
       => (/\ pc'[p] = "done"
           /\ result'[p] = RespNotFound
           /\ log'[p] = <<>>
           /\ UNCHANGED stores)]_vars

C1_Witness ==
  \E p \in Reqs :
    /\ op[p] = "delete_stream"
    /\ pc[p] = "done"
    /\ result[p] = RespNotFound
    /\ log[p] = <<>>

\* C2: the steps of a delete_stream call up to and including a failing
\* mark-pending-delete call leave the schema store, the cached schema, the
\* cached statistics and the compaction offset unchanged, and the failing call
\* ends the workflow with an InternalServerError result.
C2_MarkFailureLeavesStreamIntact ==
  [][\A p \in Reqs :
       (op'[p] = "delete_stream" /\ pc[p] \in {"idle", "d_mark"} /\ pc'[p] # pc[p])
       => (/\ UNCHANGED <<versions, schemaCache, statsCache, offset>>
           /\ (pc[p] = "d_mark" /\ FailedAt(p)' = "mark_pending_delete")
              => (/\ pc'[p] = "done"
                  /\ result'[p] = RespDeleteFailed(FailureCause(p)')))]_vars

C2_Witness ==
  \E p \in Reqs :
    /\ op[p] = "delete_stream"
    /\ pc[p] = "done"
    /\ FailedAt(p) = "mark_pending_delete"
    /\ result[p].status = "InternalServerError"
    /\ versions # <<>>
    /\ statsCache # None

\* C3: after a delete_stream call aborted with a subsystem failure, a later
\* delete_stream call that meets no failure does not fail and leaves the
\* schema, the cached schema, the cached statistics and the offset removed.
C3_RetryCompletesTeardown ==
  \A p, q \in Reqs :
    (/\ op[p] = "delete_stream" /\ pc[p] = "done" /\ FailedAt(p) # "none"
     /\ op[q] = "delete_stream" /\ pc[q] = "done" /\ FailedAt(q) = "none"
     /\ p \in before[q]
     /\ \A r \in Reqs \ {p, q} : pc[r] = "idle")
    => (/\ result[q].status # "InternalServerError"
        /\ AllRemoved)

\* C4: when a delete_stream call has returned success and no other request ran
\* during or after it, the schema versions, the cached schema, the cached
\* statistics and the compaction offset of the stream are all absent.
C4_SuccessRemovesAll ==
  \A p \in Reqs :
    (/\ op[p] = "delete_stream"
     /\ pc[p] = "done"
     /\ result[p] = RespDeleted
     /\ Sequential(p))
    => AllRemoved

C4_Witness ==
  \E p \in Reqs :
    /\ op[p] = "delete_stream"
    /\ pc[p] = "done"
    /\ result[p] = RespDeleted
    /\ Sequential(p)
    /\ before[p] # {}

\* the order of the subsystem calls of the delete workflow
DeleteOrder ==
  <<"mark_pending_delete", "schema_delete", "schema_cache_remove",
    "stats_cache_remove", "del_offset">>

\* C5: the subsystem calls of a delete_stream call are a prefix of the fixed
\* order mark, schema delete, schema-cache removal, stats-cache removal, offset
\* delete; every call but the last one made succeeded, and a failed call is
\* the last call: the workflow has ended.
C5_FixedOrderShortCircuit ==
  \A p \in Reqs :
    /\ log[p] # <<>> => op[p] = "delete_stream"
    /\ Len(log[p]) <= Len(DeleteOrder)
    /\ \A i \in DOMAIN log[p] :
         /\ log[p][i].call = DeleteOrder[i]
         /\ i < Len(log[p]) => log[p][i].outcome = "Ok"
    /\ FailedAt(p) # "none" => pc[p] = "done"
    /\ (pc[p] = "done" /\ result[p] = RespDeleted)
         => (Len(log[p]) = Len(DeleteOrder) /\ FailedAt(p) = "none")

C5_Witness ==
  \E p, q \in Reqs :
    /\ pc[p] = "done" /\ FailedAt(p) = "schema_delete" /\ Len(log[p]) = 2
    /\ pc[q] = "done" /\ result[q] = RespDeleted /\ Len(log[q]) = 5

\* C6: two delete_stream results that report failures of different stages
\* with the same cause differ, so that the result names the failing stage.
C6_FailureNamesStage ==
  \A p, q \in Reqs :
    (/\ pc[p] = "done" /\ FailedAt(p) # "none"
     /\ pc[q] = "done" /\ FailedAt(q) # "none"
     /\ FailedAt(p) # FailedAt(q)
     /\ FailureCause(p) = FailureCause(q))
    => result[p] # result[q]

\* C7: a save_stream_settings call made while the stream is marked pending
\* deletion ends at once with a result that is neither a success nor an
\* internal error, and leaves the schema store unchanged.
C7_SaveWhileDeletingIsConflict ==
  [][\A p \in Reqs :
       (pc[p] = "idle" /\ op'[p] = "save_stream_settings" /\ deleting)
       => (/\ pc'[p] = "done"
           /\ result'[p].status \notin {"Ok", "InternalServerError"}
           /\ UNCHANGED versions)]_vars

\* C8: when every request is a delete_stream call on one existing stream and
\* no subsystem fails, then under every interleaving all calls end, each with
\* success or NotFound, at least one with success, and at the end the schema,
\* the cached schema, the cached statistics and the offset are removed.
C8_ConcurrentDeletesSafe ==
  /\ <>(\A p \in Reqs : pc[p] = "done")
  /\ [](\A p \in Reqs :
          Ended(p) => pc[p] = "done" /\ result[p] \in {RespDeleted, RespNotFound})
  /\ []((\A p \in Reqs : Ended(p))
          => ((\E p \in Reqs : result[p] = RespDeleted) /\ AllRemoved))

C8_Witness ==
  /\ \A p \in Reqs : pc[p] = "done" /\ before[p] = {}
  /\ \E p, q \in Reqs : result[p] = RespDeleted /\ result[q] = RespNotFound
  /\ AllRemoved

\* C9: no request handler aborts: every operation ends by returning a result.
C9_NoOperationAborts == \A p \in Reqs : pc[p] # "panicked"

\* C10: get_stream answers NotFound whenever the schema it read from the
\* store has zero fields, whatever its metadata and the cached statistics.
C10_ZeroFieldsNotFound ==
  [][\A p \in Reqs :
       (pc[p] = "g_stats" /\ pc'[p] = "done" /\ local[p][1].fields = <<>>)
       => result'[p] = RespNotFound]_vars

\* C11: a save_stream_settings call that no other request overlaps leaves a
\* created_at that the stored metadata already had as it was, and stamps one
\* only when the key was absent; its steps other than the final set leave the
\* schema store unchanged.
C11_CreatedAtStampedOnce ==
  [][\A p \in Reqs :
       /\ (pc[p] = "s_set" /\ pc'[p] = "done" /\ Sequential(p))
          => LET old == SchemaGet(versions).metadata.created_at
                 new == (SchemaGet(versions).metadata.created_at)'
             IN  /\ new # None
                 /\ old # None => new = old
                 /\ old = None => new = Some(clock)
       /\ (/\ op'[p] = "save_stream_settings"
           /\ pc'[p] # pc[p]
           /\ ~(pc[p] = "s_set" /\ pc'[p] = "done"))
          => UNCHANGED versions]_vars

C11_Witness ==
  \E p, q \in Reqs :
    /\ op[q] = "save_stream_settings" /\ result[q] = RespSaved
    /\ op[p] = "save_stream_settings" /\ result[p] = RespSaved
    /\ q \in before[p]
    /\ Sequential(p)
    /\ arg[p] # arg[q]
    /\ SchemaGet(versions).metadata.created_at = Some(1)
    /\ SchemaGet(versions).metadata.settings = Some(SettingsToJson(arg[p]))

\* C13: no step of a get_stream or get_streams call changes the schema store,
\* the schema cache, the stats cache, the offset or the pending-delete mark.
C13_ReadsDoNotMutate ==
  [][\A p \in Reqs :
       (op'[p] \in {"get_stream", "get_streams"} /\ pc'[p] # pc[p])
       => UNCHANGED stores]_vars

C13_Witness ==
  \E p \in Reqs :
    /\ op[p] = "get_stream"
    /\ pc[p] = "done"
    /\ result[p].status = "Ok"
    /\ statsCache = Some(StatsRaw)
    /\ result[p].body[1].stats = transform_stats(StatsRaw)
    /\ result[p].body[1].stats # StatsRaw

\* C20: once a delete_stream call has returned success and a
\* save_stream_settings call on the same stream has ended too, whatever the
\* interleaving of their steps, the schema store holds no schema of the stream.
C20_SaveCannotResurrect ==
  \A p, q \in Reqs :
    (/\ op[p] = "save_stream_settings" /\ Ended(p)
     /\ op[q] = "delete_stream" /\ pc[q] = "done" /\ result[q] = RespDeleted
     /\ \A r \in Reqs \ {p, q} : pc[r] = "idle")
    => versions = <<>>

\* C12: get_streams returns one descriptor per entry of the listing, in the
\* listing's order, the i-th with the i-th entry's name and type; an entry
\* whose raw statistics are the default carries the default statistics, every
\* other entry carries its normalized statistics.
C12_ListingOrderAndStats ==
  (op[Caller] = "get_streams" /\ pc[Caller] = "done")
  => LET out == result[Caller].body
         indices == Input.indices
     IN  /\ Len(out) = Len(indices)
         /\ \A i \in DOMAIN indices :
              LET raw == Input.raw[indices[i].stream_name]
              IN  /\ out[i].name = indices[i].stream_name
                  /\ out[i].stream_type = indices[i].stream_type
                  /\ raw = StatsDefault => out[i].stats = StatsDefault
                  /\ raw # StatsDefault => out[i].stats = transform_stats(raw)

C12_Witness ==
  /\ op[Caller] = "get_streams" /\ pc[Caller] = "done"
  /\ Len(result[Caller].body) = 2
  /\ result[Caller].body[1].name = "web"
  /\ result[Caller].body[2].name = "db"
  /\ result[Caller].body[2].stream_type = "metrics"
  /\ Input.raw["web"] = StatsRaw
  /\ result[Caller].body[1].stats = transform_stats(StatsRaw)
  /\ result[Caller].body[1].stats # StatsRaw
  /\ Input.raw["db"] = StatsDefault
  /\ result[Caller].body[2].stats = StatsDefault

C15_PartitionKeysByLabel ==
  (/\ op[Caller] = "stream_res" /\ pc[Caller] = "done"
   /\ Input.schema.metadata.settings # None
   /\ Input.schema.metadata.settings[1].kind = "object"
   /\ Input.schema.metadata.settings[1].partition_keys # None)
  => LET m == Input.schema.metadata.settings[1].partition_keys[1].o
         out == result[Caller].body[1].settings.partition_keys
     IN  /\ Len(out) = Cardinality(m)
         /\ \A x \in m :
              out[1 + Cardinality({y \in m : LexLess(y[1], x[1])})] = x[2].s

C15_Witness ==
  /\ op[Caller] = "stream_res" /\ pc[Caller] = "done"
  /\ Input.schema.metadata.settings # None
  /\ Input.schema.metadata.settings[1].partition_keys
       = Some(JObj({<<(<<98>>), JStr("region")>>, <<(<<97>>), JStr("tenant")>>}))
  /\ result[Caller].body[1].settings.partition_keys = <<"tenant", "region">>

\* what C16 expects of a settings object: a member that is missing or of
\* another type gives the default, the other members are decoded
LenientSettings(settings) ==
  LET keys == settings.partition_keys
      fts == settings.full_text_search_keys
      skip == settings.skip_schema_validation
      retention == settings.data_retention
  IN  [partition_keys |->
         IF /\ keys # None /\ keys[1].t = "obj"
            /\ \A x \in keys[1].o : x[2].t = "str"
         THEN ValuesByLabel(keys[1].o) ELSE <<>>,
       full_text_search_keys |->
         IF /\ fts # None /\ fts[1].t = "arr"
            /\ \A i \in DOMAIN fts[1].a : fts[1].a[i].t = "str"
         THEN [i \in DOMAIN fts[1].a |-> fts[1].a[i].s] ELSE <<>>,
       skip_schema_validation |->
         IF skip # None /\ skip[1].t = "bool" THEN skip[1].b ELSE FALSE,
       data_retention |->
         IF retention # None /\ retention[1].t = "num" THEN retention[1].n
         ELSE 0]

\* C16: decoding a settings text that parses never fails: stream_res and
\* get_stream_setting_fts_fields return, and a member that is missing or of
\* another type is read as its default while the others are decoded.
C16_DecodeNeverFails ==
  (/\ op[Caller] \in {"stream_res", "get_stream_setting_fts_fields"}
   /\ Ended(Caller)
   /\ Input.schema.metadata.settings # None
   /\ Input.schema.metadata.settings[1].kind = "object")
  => /\ pc[Caller] = "done"
     /\ op[Caller] = "stream_res"
        => result[Caller].body[1].settings
             = LenientSettings(Input.schema.metadata.settings[1])
     /\ op[Caller] = "get_stream_setting_fts_fields"
        => result[Caller].body[1]
             = LenientSettings(Input.schema.metadata.settings[1])
                 .full_text_search_keys

\* C17: for a schema whose metadata has no settings key, whatever its other
\* keys, stream_res reads the default settings and
\* get_stream_setting_fts_fields returns Ok with an empty list.
C17_NoSettingsKeyGivesDefaults ==
  (/\ op[Caller] \in {"stream_res", "get_stream_setting_fts_fields"}
   /\ Ended(Caller)
   /\ Input.schema.metadata.settings = None)
  => /\ pc[Caller] = "done"
     /\ op[Caller] = "stream_res"
        => result[Caller].body[1].settings = SettingsDefault
     /\ op[Caller] = "get_stream_setting_fts_fields"
        => result[Caller] = RespStream(<<>>)

C17_Witness ==
  /\ op[Caller] = "get_stream_setting_fts_fields" /\ pc[Caller] = "done"
  /\ Input.schema.metadata.settings = None
  /\ Input.schema.metadata.created_at = Some(0)
  /\ Input.schema.metadata.other # None
  /\ result[Caller] = RespStream(<<>>)

\* C18: transform_stats leaves the row count and the time bounds as they are,
\* and maps the default statistics to the default statistics, so that applying
\* it again to that result changes nothing.
C18_NormalizeFixesDefault ==
  (op[Caller] = "transform_stats" /\ pc[Caller] = "done")
  => LET out == result[Caller].body[1]
     IN  /\ out.doc_num = Input.stats.doc_num
         /\ out.doc_time_min = Input.stats.doc_time_min
         /\ out.doc_time_max = Input.stats.doc_time_max
         /\ Input.stats = StatsDefault
            => out = StatsDefault /\ transform_stats(out) = out

C18_Witness ==
  /\ op[Caller] = "transform_stats" /\ pc[Caller] = "done"
  /\ Input.stats = StatsDefault
  /\ result[Caller].body[1] = StatsDefault

\* C19: stream_res called with stats = Some(v) returns a descriptor whose
\* stats are v, not normalized; called with stats = None it returns a
\* descriptor whose stats are the default statistics.
C19_BuilderPassesStatsThrough ==
  (op[Caller] = "stream_res" /\ pc[Caller] = "done")
  => result[Caller].body[1].stats
       = IF Input.stats = None THEN StatsDefault ELSE Input.stats[1]

C19_Witness ==
  /\ op[Caller] = "stream_res" /\ pc[Caller] = "done"
  /\ Input.stats = Some(StatsRaw)
  /\ result[Caller].body[1].stats = StatsRaw
  /\ StatsRaw # transform_stats(StatsRaw)

====
